---- MODULE Spec2Model ----
(***************************************************************************)
(* Model of src/src/preserve.rs: PreserveJsValue<T>, the process-wide slot *)
(* NEXT_PRESERVE (a std::sync::Mutex<Option<JsValueKeeper>>), and the two  *)
(* serde hooks Serialize::serialize and JsValueVisitor::visit_i64.         *)
(*                                                                         *)
(* A JsValue is modelled by the identity of the JavaScript object it       *)
(* refers to (a number in Objs); None is the empty Option.  A value of the *)
(* wrapped type T is a record [ty, obj]: the Rust type and the object its  *)
(* handle refers to.  Threads call serialize and deserialize; every call   *)
(* is split at the points where another thread can interleave: the lock,   *)
(* the conversion, the slot access and the call into the serde framework.  *)
(*                                                                         *)
(* The panic strategy modelled is unwinding: a panic ends the call of the  *)
(* panicking thread, drops the MutexGuard it holds (which poisons the      *)
(* Mutex), and leaves the other threads running.                           *)
(***************************************************************************)
EXTENDS Naturals, Integers, Sequences, FiniteSets, TLC

\* ------------------------------------------------------------------ bounds
NumThreads == 2
NumObjs == 2
HistLen == 3
MaxWire == 1

Threads == 1..NumThreads
Objs == 1..NumObjs
WireInts == 0..MaxWire

\* ------------------------------------------------------------ value model
None == 0
NoThread == 0
NoScalar == -1

\* Types T that satisfy From<JsValue> + Into<JsValue> + Clone (line 20):
\* "JsValue" is the raw handle (doc comment, lines 15-16), whose conversions
\* touch nothing but the handle; "Reentrant" is a type whose conversions
\* themselves serialize or deserialize a PreserveJsValue.
PureTypes == {"JsValue"}
Types == PureTypes \cup {"Reentrant"}

TValue(ty, obj) == [ty |-> ty, obj |-> obj]

\* #[derive(Clone)]: a clone of a handle refers to the same object.
Clone_other(v) == [ty |-> v.ty, obj |-> (v.obj % NumObjs) + 1]
Clone(v) == TValue(v.ty, v.obj)

\* Into<JsValue> for T: the JsValue refers to the object of the T handle.
ToJs(v) == v.obj

\* From<JsValue> for T: a T handle of the target type on the same object.
FromJs(ty, js) == TValue(ty, js)

\* JsValueKeeper(pub JsValue): the newtype stored in the slot, and its field.
JsValueKeeper(js) == js
Unkeep(k) == k

\* ---------------------------------------------------------- wrapper model
\* pub struct PreserveJsValue<T>(pub T): a tuple struct of one field.
PreserveJsValue(v) == <<v>>

\* The field .0 of a wrapper.
Field0(w) == w[1]

\* T::default(): for JsValue the handle of undefined, one fixed object.
Undefined == 1
DefaultT(ty) == TValue(ty, Undefined)

\* impl From<T>, lines 21-25: Self(value).
From_default(val) == PreserveJsValue(DefaultT(val.ty))
From(val) == PreserveJsValue(val)

\* impl Default, lines 26-30: Self(T::default()).
Default(ty) == PreserveJsValue(DefaultT(ty))

\* T's PartialEq: two handles are equal when they are the same handle type
\* on the same object.
EqT(x, y) == x = y

\* #[derive(Clone, PartialEq)], line 19: field-wise clone and comparison.
CloneW(w) == PreserveJsValue(Clone(Field0(w)))
EqW(a, b) == EqT(Field0(a), Field0(b))

\* The values of T and the wrappers around them.
TValues == {TValue(ty, o) : ty \in Types, o \in Objs}
Wrappers == {PreserveJsValue(v) : v \in TValues}

\* The record of an operation on wrappers: its name, inputs and result.
WrapRec(op, in, out) == [op |-> op, in |-> in, out |-> out]
NoWrap == WrapRec("none", << >>, << >>)

\* ------------------------------------------------------------- call model
\* A call: serialize of PreserveJsValue(TValue(ty, obj)), or deserialize into
\* PreserveJsValue<ty>.  The object of a Reentrant value never reaches the
\* slot, so one stands for all.
SerCalls == [op : {"ser"}, ty : PureTypes, obj : Objs]
                \cup {[op |-> "ser", ty |-> "Reentrant", obj |-> 1]}
DeCalls == [op : {"de"}, ty : Types, obj : {None}]
Calls == SerCalls \cup DeCalls
NoCall == [op |-> "none", ty |-> "none", obj |-> None]

Outcome(kind, ty, obj) == [kind |-> kind, ty |-> ty, obj |-> obj]
Pending == Outcome("pending", "none", None)
Panicked == Outcome("panic", "none", None)
RetErr == Outcome("err", "none", None)
SerOk == Outcome("ok", "none", None)
DeOk(v) == Outcome("ok", v.ty, v.obj)
NoOutcome == Outcome("none", "none", None)

VARIABLES
    NEXT_PRESERVE,  \* content of the Mutex: None or a JsValueKeeper
    owner,          \* thread holding the MutexGuard, or NoThread
    poisoned,       \* the Mutex's poison flag
    relock,         \* what this build does when a thread locks a Mutex it holds
    pc,             \* position of each thread inside its call
    self,           \* the call each thread is executing
    tmp,            \* the JsValue a thread has converted or taken
    wire,           \* last scalar handed to a serializer, NoScalar before
    log,            \* history: the current run of non-overlapping free calls
    script,         \* calls a thread is still scripted to make (round trips)
    result,         \* history: outcome of each thread's last scripted call
    sent,           \* history: object each thread's scripted serialize deposited
    lastBy,         \* history: thread of the latest scripted deposit
    mixed,          \* history: a scripted deserialize began before every
                    \* scripted serialize had ended
    trail,          \* history: each thread's finished scripted calls, in order
    value,          \* the i64 the deserializer passed to a thread's visit_i64
    wrap            \* the last operation on a wrapper, its inputs and result

vars == <<NEXT_PRESERVE, owner, poisoned, relock, pc, self, tmp, wire, log,
          script, result, sent, lastBy, mixed, trail, value, wrap>>

\* ---------------------------------------------------------------- helpers
Last(s) == s[Len(s)]

Quiescent == \A u \in Threads : pc[u] = "idle"

Scripted(t) == script[t] # << >>

\* The record of a call in the log; pz: the Mutex was poisoned at its start.
LogRec(c) == [op |-> c.op, ty |-> c.ty, obj |-> c.obj, pz |-> poisoned,
              out |-> Pending]

\* A call that starts while no other call is active extends the current run
\* (the window keeps its last HistLen calls); one that overlaps ends the run.
LogStart(c) ==
    IF Quiescent
    THEN IF Len(log) < HistLen THEN Append(log, LogRec(c))
         ELSE Append(Tail(log), LogRec(c))
    ELSE << >>

\* The pending record of the log, if any, is the finishing call's own.
LogEnd(o) ==
    IF Len(log) > 0 /\ Last(log).out = Pending
    THEN [log EXCEPT ![Len(log)].out = o]
    ELSE log

\* The record of a finished scripted call in a thread's trail.
TrailRec(c, o) == [op |-> c.op, ty |-> c.ty, obj |-> c.obj, out |-> o]

\* A call of thread t ends with outcome o.
Finish(t, o) ==
    /\ pc' = [pc EXCEPT ![t] = "idle"]
    /\ self' = [self EXCEPT ![t] = NoCall]
    /\ tmp' = [tmp EXCEPT ![t] = None]
    /\ value' = [value EXCEPT ![t] = NoScalar]
    /\ IF Scripted(t)
       THEN /\ script' = [script EXCEPT ![t] = Tail(script[t])]
            /\ result' = [result EXCEPT ![t] = o]
            /\ trail' = [trail EXCEPT ![t] = Append(@, TrailRec(Head(script[t]), o))]
            /\ UNCHANGED log
       ELSE /\ log' = LogEnd(o)
            /\ UNCHANGED <<script, result, trail>>

\* A panic unwinds thread t: a MutexGuard it holds is dropped while the
\* thread is panicking, which poisons the Mutex and releases it.
Panic(t) ==
    /\ Finish(t, Panicked)
    /\ IF owner = t
       THEN owner' = NoThread /\ poisoned' = TRUE
       ELSE UNCHANGED <<owner, poisoned>>

\* Mutex::lock returns once no thread holds the guard.
LockFree_unguarded == TRUE
LockFree == owner = NoThread

\* ------------------------------------------------------------------- Init
\* static NEXT_PRESERVE: Mutex<Option<JsValueKeeper>> = Mutex::new(None)
Init ==
    /\ NEXT_PRESERVE = None
    /\ owner = NoThread
    /\ poisoned = FALSE
    /\ relock \in {"deadlock", "panic"}
    /\ pc = [t \in Threads |-> "idle"]
    /\ self = [t \in Threads |-> NoCall]
    /\ tmp = [t \in Threads |-> None]
    /\ wire = NoScalar
    /\ log = << >>
    /\ script = [t \in Threads |-> << >>]
    /\ result = [t \in Threads |-> NoOutcome]
    /\ sent = [t \in Threads |-> None]
    /\ lastBy = NoThread
    /\ mixed = FALSE
    /\ trail = [t \in Threads |-> << >>]
    /\ value = [t \in Threads |-> NoScalar]
    /\ wrap = NoWrap

\* ---------------------------------------------------------------- actions
\* Thread t enters PreserveJsValue::serialize (line 40) or ::deserialize
\* (line 53).
Enter(t, c) ==
    /\ pc' = [pc EXCEPT ![t] = IF c.op = "ser" THEN "s_lock" ELSE "d_call"]
    /\ self' = [self EXCEPT ![t] = c]
    /\ UNCHANGED <<NEXT_PRESERVE, owner, poisoned, relock, wrap, tmp, wire, script,
                   result, trail, value, sent, lastBy>>

\* A free call: any thread, any call, at any time it is idle.
Call(t) ==
    /\ pc[t] = "idle"
    /\ ~Scripted(t)
    /\ \E c \in Calls : Enter(t, c) /\ log' = LogStart(c)
    /\ UNCHANGED mixed

\* serialize, lines 44-46: NEXT_PRESERVE.lock().unwrap().  lock() blocks
\* while another thread holds the guard; on a poisoned Mutex it returns Err
\* and unwrap() panics, dropping the guard the error carries.
serialize_lock(t) ==
    /\ pc[t] = "s_lock"
    /\ LockFree
    /\ IF poisoned
       THEN /\ Panic(t)
            /\ UNCHANGED <<NEXT_PRESERVE, relock, wrap, wire, sent, lastBy, mixed>>
       ELSE /\ owner' = t
            /\ pc' = [pc EXCEPT ![t] = "s_conv"]
            /\ UNCHANGED <<NEXT_PRESERVE, poisoned, relock, wrap, self, tmp, wire, log,
                           script, result, trail, value, sent, lastBy, mixed>>

\* serialize, line 47: the argument self.0.clone().into() is evaluated after
\* the receiver, so the guard is held.  A Reentrant conversion calls
\* serialize again and arrives at lines 44-46 on the same thread.
serialize_convert(t) ==
    /\ pc[t] = "s_conv"
    /\ IF self[t].ty \in PureTypes
       THEN /\ tmp' = [tmp EXCEPT ![t] = ToJs(Clone(TValue(self[t].ty, self[t].obj)))]
            /\ pc' = [pc EXCEPT ![t] = "s_replace"]
       ELSE /\ pc' = [pc EXCEPT ![t] = "n_lock"]
            /\ UNCHANGED tmp
    /\ UNCHANGED <<NEXT_PRESERVE, owner, poisoned, relock, wrap, self, wire, log,
                   script, result, trail, value, sent, lastBy, mixed>>

\* The slot after Option::replace(JsValueKeeper(js)).
Replaced_keep(old, js) == IF old = None THEN JsValueKeeper(js) ELSE old
Replaced(old, js) == JsValueKeeper(js)

\* serialize, line 47: .replace(...); the old content and then the guard are
\* dropped at the end of the statement.
serialize_replace(t) ==
    /\ pc[t] = "s_replace"
    /\ NEXT_PRESERVE' = Replaced(NEXT_PRESERVE, tmp[t])
    /\ sent' = IF Scripted(t) THEN [sent EXCEPT ![t] = tmp[t]] ELSE sent
    /\ lastBy' = IF Scripted(t) THEN t ELSE lastBy
    /\ owner' = NoThread
    /\ pc' = [pc EXCEPT ![t] = "s_emit"]
    /\ UNCHANGED <<poisoned, relock, wrap, self, tmp, wire, log, script, result,
                   trail, value, mixed>>

\* The scalar serialize hands to the serializer (line 48).
Sentinel_obj(v) == v.obj
Sentinel(v) == 0

\* serialize, line 48: serializer.serialize_i64(0); the serializer accepts
\* or rejects the scalar and its Result is returned as it is.
serialize_emit_rollback(t) ==
    /\ pc[t] = "s_emit"
    /\ wire' = Sentinel(self[t])
    /\ \E r \in {SerOk, RetErr} :
        /\ Finish(t, r)
        /\ NEXT_PRESERVE' = IF r = RetErr THEN None ELSE NEXT_PRESERVE
    /\ UNCHANGED <<owner, poisoned, relock, wrap, sent, lastBy, mixed>>

serialize_emit(t) ==
    /\ pc[t] = "s_emit"
    /\ wire' = Sentinel(self[t])
    /\ \E r \in {SerOk, RetErr} : Finish(t, r)
    /\ UNCHANGED <<NEXT_PRESERVE, owner, poisoned, relock, wrap, sent, lastBy, mixed>>

\* deserialize, line 78: deserializer.deserialize_i64(visitor).  The
\* deserializer calls visit_i64(n) when it finds an i64 n.
deserialize_i64(t) ==
    /\ pc[t] = "d_call"
    /\ \E n \in WireInts : value' = [value EXCEPT ![t] = n]
    /\ pc' = [pc EXCEPT ![t] = "d_lock"]
    /\ UNCHANGED <<NEXT_PRESERVE, owner, poisoned, relock, wrap, self, tmp, wire,
                   log, script, result, trail, sent, lastBy, mixed>>

\* deserialize, lines 61-76: the visitor implements only visit_i64, so any
\* other input ends in the default methods' invalid-type error.
deserialize_other_take(t) ==
    /\ pc[t] = "d_call"
    /\ Finish(t, RetErr)
    /\ NEXT_PRESERVE' = None
    /\ UNCHANGED <<owner, poisoned, relock, wrap, wire, sent, lastBy, mixed>>

deserialize_other(t) ==
    /\ pc[t] = "d_call"
    /\ Finish(t, RetErr)
    /\ UNCHANGED <<NEXT_PRESERVE, owner, poisoned, relock, wrap, wire, sent, lastBy, mixed>>

\* visit_i64, line 73: NEXT_PRESERVE.lock().unwrap().
visit_i64_lock(t) ==
    /\ pc[t] = "d_lock"
    /\ LockFree
    /\ IF poisoned
       THEN /\ Panic(t)
            /\ UNCHANGED <<NEXT_PRESERVE, relock, wrap, wire, sent, lastBy, mixed>>
       ELSE /\ owner' = t
            /\ pc' = [pc EXCEPT ![t] = "d_take"]
            /\ UNCHANGED <<NEXT_PRESERVE, poisoned, relock, wrap, self, tmp, wire, log,
                           script, result, trail, value, sent, lastBy, mixed>>

\* The slot after Option::take().
Taken_peek(old) == old
Taken(old) == None

\* Option::unwrap panics on None.
UnwrapPanics_default(opt) == FALSE
UnwrapPanics(opt) == opt = None

\* visit_i64(self, _value), lines 68-75: the JsValue the wrapper is built
\* from, given the i64 n passed as _value and the keeper k taken from the
\* slot; _value is not used.
Retrieved_wire(n, k) == IF n = 0 THEN Unkeep(k) ELSE Undefined
Retrieved(n, k) == Unkeep(k)

\* visit_i64, line 73: .take().unwrap(); unwrap() panics on None while the
\* guard is held.
visit_i64_take(t) ==
    /\ pc[t] = "d_take"
    /\ NEXT_PRESERVE' = Taken(NEXT_PRESERVE)
    /\ IF UnwrapPanics(NEXT_PRESERVE)
       THEN Panic(t)
       ELSE /\ tmp' = [tmp EXCEPT ![t] = Retrieved(value[t], NEXT_PRESERVE)]
            /\ pc' = [pc EXCEPT ![t] = "d_conv"]
            /\ UNCHANGED <<owner, poisoned, self, log, script, result, trail, value>>
    /\ UNCHANGED <<relock, wrap, wire, sent, lastBy, mixed>>

\* visit_i64, line 73: .0.into(), still under the guard (the temporary lives
\* to the end of the expression).  A Reentrant conversion calls deserialize
\* again and arrives at line 73 on the same thread.
visit_i64_convert(t) ==
    /\ pc[t] = "d_conv"
    /\ IF self[t].ty \in PureTypes
       THEN /\ self' = [self EXCEPT ![t].obj = FromJs(self[t].ty, tmp[t]).obj]
            /\ pc' = [pc EXCEPT ![t] = "d_ret"]
       ELSE /\ pc' = [pc EXCEPT ![t] = "n_lock"]
            /\ UNCHANGED self
    /\ UNCHANGED <<NEXT_PRESERVE, owner, poisoned, relock, wrap, tmp, wire, log,
                   script, result, trail, value, sent, lastBy, mixed>>

\* visit_i64, lines 72-75: Ok(PreserveJsValue(..)); the guard is dropped.
visit_i64_return(t) ==
    /\ pc[t] = "d_ret"
    /\ owner' = NoThread
    /\ Finish(t, DeOk(TValue(self[t].ty, self[t].obj)))
    /\ UNCHANGED <<NEXT_PRESERVE, poisoned, relock, wrap, wire, sent, lastBy, mixed>>

\* lock() by the thread that holds the guard (a conversion that re-enters
\* lines 44-46 or 73): std leaves the behaviour unspecified, it never
\* returns: the call panics or blocks forever, depending on the build.
nested_lock(t) ==
    /\ pc[t] = "n_lock"
    /\ owner = t
    /\ relock = "panic"
    /\ Panic(t)
    /\ UNCHANGED <<NEXT_PRESERVE, relock, wrap, wire, sent, lastBy, mixed>>

Step(t) ==
    \/ serialize_lock(t)
    \/ serialize_convert(t)
    \/ serialize_replace(t)
    \/ serialize_emit(t)
    \/ deserialize_i64(t)
    \/ deserialize_other(t)
    \/ visit_i64_lock(t)
    \/ visit_i64_take(t)
    \/ visit_i64_convert(t)
    \/ visit_i64_return(t)
    \/ nested_lock(t)

Next == \E t \in Threads : Call(t) \/ Step(t)

Spec == Init /\ [][Next]_vars

\* Every call in progress keeps being scheduled, and a thread waiting for the
\* Mutex gets it if it is free again and again.
FairSpec == Init /\ [][Next]_vars /\ \A t \in Threads : SF_vars(Step(t))

\* ------------------------------------------------- scripted round trips
\* Every thread runs one round trip: serialize of its own value, then a
\* deserialize of what was serialized (an i64, so visit_i64 is reached).
RoundTrips ==
    {<<[op |-> "ser", ty |-> ty, obj |-> o], [op |-> "de", ty |-> ty, obj |-> None]>> :
        ty \in PureTypes, o \in Objs}

InitRT ==
    /\ NEXT_PRESERVE \in {None} \cup Objs
    /\ owner = NoThread
    /\ poisoned = FALSE
    /\ relock \in {"deadlock", "panic"}
    /\ pc = [t \in Threads |-> "idle"]
    /\ self = [t \in Threads |-> NoCall]
    /\ tmp = [t \in Threads |-> None]
    /\ wire = NoScalar
    /\ log = << >>
    /\ script \in [Threads -> RoundTrips]
    /\ result = [t \in Threads |-> NoOutcome]
    /\ sent = [t \in Threads |-> None]
    /\ lastBy = NoThread
    /\ mixed = FALSE
    /\ trail = [t \in Threads |-> << >>]
    /\ value = [t \in Threads |-> NoScalar]
    /\ wrap = NoWrap

ScriptCall(t) ==
    /\ pc[t] = "idle"
    /\ Scripted(t)
    /\ Enter(t, Head(script[t]))
    /\ mixed' = (mixed \/ (Head(script[t]).op = "de"
                           /\ \E u \in Threads : Len(script[u]) = 2))
    /\ UNCHANGED log

StepRT(t) ==
    \/ serialize_lock(t)
    \/ serialize_convert(t)
    \/ serialize_replace(t)
    \/ serialize_emit(t)
    \/ deserialize_i64(t)
    \/ visit_i64_lock(t)
    \/ visit_i64_take(t)
    \/ visit_i64_convert(t)
    \/ visit_i64_return(t)

NextRT == \E t \in Threads : ScriptCall(t) \/ StepRT(t)

SpecRT == InitRT /\ [][NextRT]_vars

\* ------------------------------------------- a structure with two fields
\* The doc example (lines 8-18): a structure with two PreserveJsValue fields
\* and derived Serialize and Deserialize.  One thread serializes the
\* structure (the hook of the first field, then of the second) and then
\* deserializes it field by field, from a form in which each field is the
\* i64 its serialize emitted.
StructTrips ==
    {<<[op |-> "ser", ty |-> ty, obj |-> o1], [op |-> "ser", ty |-> ty, obj |-> o2],
       [op |-> "de", ty |-> ty, obj |-> None], [op |-> "de", ty |-> ty, obj |-> None]>> :
        ty \in PureTypes, o1 \in Objs, o2 \in Objs}

InitST ==
    /\ NEXT_PRESERVE \in {None} \cup Objs
    /\ owner = NoThread
    /\ poisoned = FALSE
    /\ relock \in {"deadlock", "panic"}
    /\ pc = [t \in Threads |-> "idle"]
    /\ self = [t \in Threads |-> NoCall]
    /\ tmp = [t \in Threads |-> None]
    /\ wire = NoScalar
    /\ log = << >>
    /\ \E t \in Threads : \E st \in StructTrips :
            script = [u \in Threads |-> IF u = t THEN st ELSE << >>]
    /\ result = [t \in Threads |-> NoOutcome]
    /\ sent = [t \in Threads |-> None]
    /\ lastBy = NoThread
    /\ mixed = FALSE
    /\ trail = [t \in Threads |-> << >>]
    /\ value = [t \in Threads |-> NoScalar]
    /\ wrap = NoWrap

\* The derived code goes on to the next field only when the hook of the
\* field before returned Ok: an Err is returned at once (the ? operator) and
\* a panic unwinds through it.
StructCall(t) ==
    /\ result[t].kind \in {"none", "ok"}
    /\ ScriptCall(t)

NextST == \E t \in Threads : StructCall(t) \/ StepRT(t)

SpecST == InitST /\ [][NextST]_vars

\* The structure's round trip has returned a structure: every hook was
\* called and the last returned Ok.
StructReturned(t) ==
    /\ Len(trail[t]) = 4
    /\ pc[t] = "idle"
    /\ result[t].kind = "ok"

\* ---------------------------------------------------- wrapper operations
\* The operations of lines 19-30 on wrappers, with the slot in any state the
\* hooks can leave it in: EMPTY or FULL, the Mutex poisoned or not.
InitW ==
    /\ NEXT_PRESERVE \in {None} \cup Objs
    /\ owner = NoThread
    /\ poisoned \in BOOLEAN
    /\ relock \in {"deadlock", "panic"}
    /\ pc = [t \in Threads |-> "idle"]
    /\ self = [t \in Threads |-> NoCall]
    /\ tmp = [t \in Threads |-> None]
    /\ wire = NoScalar
    /\ log = << >>
    /\ script = [t \in Threads |-> << >>]
    /\ result = [t \in Threads |-> NoOutcome]
    /\ sent = [t \in Threads |-> None]
    /\ lastBy = NoThread
    /\ mixed = FALSE
    /\ trail = [t \in Threads |-> << >>]
    /\ value = [t \in Threads |-> NoScalar]
    /\ wrap = NoWrap

\* An operation on wrappers assigns nothing but its result.
WrapOp(op, in, out) ==
    /\ wrap' = WrapRec(op, in, out)
    /\ UNCHANGED <<NEXT_PRESERVE, owner, poisoned, relock, pc, self, tmp, wire,
                   log, script, result, sent, lastBy, mixed, trail, value>>

\* PreserveJsValue(v), the tuple constructor (line 20).
wrapper_new == \E v \in TValues : WrapOp("new", <<v>>, PreserveJsValue(v))

\* PreserveJsValue::from(v) (lines 21-25).
wrapper_from == \E v \in TValues : WrapOp("from", <<v>>, From(v))

\* w.0 (line 20, the field is pub).
wrapper_field == \E w \in Wrappers : WrapOp("field", <<w>>, Field0(w))

\* w.clone() (line 19).
wrapper_clone == \E w \in Wrappers : WrapOp("clone", <<w>>, CloneW(w))

\* a == b (line 19).
wrapper_eq == \E a, b \in Wrappers : WrapOp("eq", <<a, b>>, EqW(a, b))

\* PreserveJsValue::<T>::default() (lines 26-30).
wrapper_default == \E ty \in Types : WrapOp("default", <<ty>>, Default(ty))

NextW ==
    \/ wrapper_new
    \/ wrapper_from
    \/ wrapper_field
    \/ wrapper_clone
    \/ wrapper_eq
    \/ wrapper_default

SpecW == InitW /\ [][NextW]_vars

\* ----------------------------------------------------------------- claims
\* A finished call of the log.
Done(r) == r.out.kind # "pending"

\* A finished deserialize of the log that reached visit_i64 (visit_i64 never
\* returns Err: it returns Ok or panics).
Visited(r) == r.op = "de" /\ r.out.kind \in {"ok", "panic"}

\* A serialize of the log whose conversion does not re-enter the hooks.
PureSer(r) == r.op = "ser" /\ r.ty \in PureTypes

\* C1. Round-trip identity: a serialize of PreserveJsValue(v), started with
\* the slot EMPTY or FULL (the Mutex not poisoned), followed by a deserialize
\* into the same type that reaches visit_i64, no other call in between,
\* returns Ok(PreserveJsValue(v)); so does every round trip of a sequence.
C1_RoundTripIdentity ==
    \A i \in 1..(Len(log) - 1) :
        LET s == log[i]
            d == log[i + 1]
        IN  (PureSer(s) /\ ~s.pz /\ Visited(d) /\ d.ty = s.ty)
                => d.out = DeOk(TValue(s.ty, s.obj))

\* A round trip of object 2 that began with the slot FULL of object 1, left
\* over by a serialize whose serializer rejected the scalar.
C1_Witness ==
    /\ Len(log) = 3
    /\ log[1].op = "ser" /\ log[1].obj = 1 /\ log[1].out = RetErr
    /\ log[2].op = "ser" /\ log[2].obj = 2
    /\ log[3].op = "de" /\ log[3].out = DeOk(TValue("JsValue", 2))

\* C2. Sentinel stability: the only scalar a serializer is ever handed is the
\* i64 0, and every serialize that reaches the serializer hands it 0,
\* whatever the wrapped value and the slot state.
C2_SentinelStability ==
    /\ [](wire \in {NoScalar, 0})
    /\ [][\A t \in Threads :
            (pc[t] = "s_emit" /\ pc'[t] = "idle") => wire' = 0]_vars

\* Two serializes of different objects have both emitted, and the wire is 0.
C2_Witness ==
    /\ Len(log) >= 2
    /\ log[1].op = "ser" /\ log[2].op = "ser"
    /\ log[1].obj # log[2].obj
    /\ log[1].out = SerOk /\ log[2].out = SerOk
    /\ wire = 0

\* C3. Fatal-on-empty: the step of visit_i64 that takes from an EMPTY slot is
\* a panic: the call ends there without a wrapper (no default value, no value
\* retrieved earlier), and the slot content is still EMPTY.
C3_FatalOnEmpty ==
    [][\A t \in Threads :
        (pc[t] = "d_take" /\ NEXT_PRESERVE = None /\ pc'[t] # "d_take")
            => /\ pc'[t] = "idle"
               /\ NEXT_PRESERVE' = None
               /\ tmp'[t] = None
               /\ Scripted(t) => result'[t] = Panicked
               /\ (~Scripted(t) /\ Len(log) > 0 /\ Last(log).out = Pending)
                     => Last(log').out = Panicked]_vars

\* A deserialize panicked on the slot that the deserialize before it emptied.
C3_Witness ==
    /\ Len(log) = 3
    /\ log[1].op = "ser" /\ log[1].ty = "JsValue"
    /\ log[2].op = "de" /\ log[2].out.kind = "ok"
    /\ log[3].op = "de" /\ log[3].ty = "JsValue" /\ log[3].out = Panicked
    /\ NEXT_PRESERVE = None

\* C4. Post-decode emptiness: when visit_i64 returns Ok, the slot is EMPTY,
\* whatever calls came before and whatever other threads are doing.
C4_PostDecodeEmpty ==
    [][\A t \in Threads :
        (pc[t] = "d_ret" /\ pc'[t] = "idle") => NEXT_PRESERVE' = None]_vars

\* After a deserialize that never reached visit_i64 and a serialize, a
\* deserialize has returned Ok and the slot is EMPTY.
C4_Witness ==
    /\ Len(log) = 3
    /\ log[1].op = "de" /\ log[1].out = RetErr
    /\ log[2].op = "ser"
    /\ log[3].op = "de" /\ log[3].out.kind = "ok"
    /\ NEXT_PRESERVE = None

\* C5. Overwrite hazard: after serialize of v1 then serialize of v2, nothing
\* in between, neither serialize fails on account of the overwrite (each
\* returns what its serializer returned), the next deserialize returns v2 and
\* not v1; and a deserialize that follows a successful one with no serialize
\* in between is fatal, so v1 is never returned.
C5_OverwriteHazard ==
    /\ \A i \in 1..(Len(log) - 2) :
        LET s1 == log[i]
            s2 == log[i + 1]
            d == log[i + 2]
        IN  (PureSer(s1) /\ ~s1.pz /\ PureSer(s2) /\ Visited(d) /\ d.ty = s2.ty)
                => /\ s1.out \in {SerOk, RetErr}
                   /\ s2.out \in {SerOk, RetErr}
                   /\ d.out = DeOk(TValue(s2.ty, s2.obj))
                   /\ s1.obj # s2.obj => d.out.obj # s1.obj
    /\ \A i \in 1..(Len(log) - 1) :
        LET d1 == log[i]
            d2 == log[i + 1]
        IN  (d1.op = "de" /\ d1.out.kind = "ok" /\ Visited(d2))
                => d2.out = Panicked

\* Object 2 was deposited, then object 1 over it, and the deserialize
\* returned object 1.
C5_Witness ==
    /\ Len(log) = 3
    /\ log[1].op = "ser" /\ log[1].obj = 2 /\ log[1].out = SerOk
    /\ log[2].op = "ser" /\ log[2].obj = 1 /\ log[2].out = SerOk
    /\ log[3].op = "de" /\ log[3].out = DeOk(TValue("JsValue", 1))
    /\ NEXT_PRESERVE = None

\* Positions at which a thread holds the MutexGuard: from lock() to the drop
\* of the guard, the replace (s_replace) and the take (d_take) included.
GuardHeld == {"s_conv", "s_replace", "d_take", "d_conv", "d_ret", "n_lock"}

\* C6. Mutual exclusion: at most one thread at a time is between lock() and
\* the drop of its guard, so at most one is inside a replace or a take, and
\* it is the owner of the Mutex.
C6_MutualExclusion ==
    /\ Cardinality({t \in Threads : pc[t] \in GuardHeld}) <= 1
    /\ \A t \in Threads : pc[t] \in GuardHeld => owner = t

\* One thread is at the replace while another waits in lock() to take.
C6_Witness ==
    \E t, u \in Threads : pc[t] = "s_replace" /\ pc[u] = "d_lock"

\* Every scripted round trip has ended.
AllDone == \A t \in Threads : pc[t] = "idle" /\ ~Scripted(t)

\* C7. Concurrent round trips corrupt each other: when every thread's
\* serialize ends before any thread's deserialize begins, the first
\* deserialize to take (no deserialize has ended before it) holds the value
\* of the latest deposit, whichever thread it is; in the end exactly one
\* deserialize has returned, with that value, and every other was fatal,
\* so the threads never all get their own values back.
C7_ConcurrentRoundTrips ==
    ~mixed =>
        /\ \A t \in Threads :
            pc[t] \in {"d_conv", "d_ret"}
                => /\ tmp[t] = sent[lastBy]
                   /\ \A u \in Threads \ {t} : Scripted(u)
        /\ AllDone
            => \E t \in Threads :
                /\ result[t] = DeOk(TValue("JsValue", sent[lastBy]))
                /\ \A u \in Threads \ {t} : result[u] = Panicked

\* Thread 1 got back the value of thread 2, the later depositor, and thread 2
\* panicked.
C7_Witness ==
    /\ AllDone /\ ~mixed
    /\ sent[1] # sent[2]
    /\ lastBy = 2
    /\ result[1] = DeOk(TValue("JsValue", sent[2]))
    /\ result[2] = Panicked

\* C8. The Encode Adapter always succeeds and has no error path: every
\* finished serialize of a value with a pure conversion reached the
\* serializer and returned its result (Ok when the serializer accepts the
\* scalar; a serializer's own rejection is not held against the adapter),
\* and left the slot FULL with the converted value.
C8_EncodeAlwaysSucceeds ==
    \A i \in 1..Len(log) :
        (PureSer(log[i]) /\ Done(log[i]))
            => /\ log[i].out \in {SerOk, RetErr}
               /\ i = Len(log)
                    => NEXT_PRESERVE = JsValueKeeper(ToJs(TValue(log[i].ty, log[i].obj)))

\* C9. No terminal state: after a fatal deserialize on the EMPTY slot (the
\* panic raised under the guard), a serialize of v followed at once by a
\* deserialize that reaches visit_i64 succeeds and returns v.
C9_NoTerminalState ==
    \A i \in 1..(Len(log) - 2) :
        LET f == log[i]
            s == log[i + 1]
            d == log[i + 2]
        IN  (/\ f.op = "de" /\ f.ty \in PureTypes /\ ~f.pz /\ f.out = Panicked
             /\ PureSer(s) /\ Visited(d) /\ d.ty = s.ty)
                => /\ s.out \in {SerOk, RetErr}
                   /\ d.out = DeOk(TValue(s.ty, s.obj))

\* C10. Every call completes or is fatal: under fair scheduling every call a
\* thread has begun ends, by returning or by panicking.
C10_EveryCallEnds ==
    \A t \in Threads : (pc[t] # "idle") ~> (pc[t] = "idle")

\* C11. The wrapper is a pure container: the tuple constructor, From, the
\* field read, clone, == and default each give the result of the same
\* operation on the wrapped value (From(v).0 = v; clone, equality and
\* default are T's), and a step that performs one leaves the slot, the
\* Mutex's owner and its poison flag as they were.
C11_PureContainer ==
    /\ [](/\ wrap.op \in {"new", "from"} => Field0(wrap.out) = wrap.in[1]
          /\ wrap.op = "field" => PreserveJsValue(wrap.out) = wrap.in[1]
          /\ wrap.op = "clone" => Field0(wrap.out) = Clone(Field0(wrap.in[1]))
          /\ wrap.op = "eq"
                => wrap.out = EqT(Field0(wrap.in[1]), Field0(wrap.in[2]))
          /\ wrap.op = "default" => Field0(wrap.out) = DefaultT(wrap.in[1]))
    /\ [][wrap' # wrap
            => UNCHANGED <<NEXT_PRESERVE, owner, poisoned>>]_vars

\* From(v) of a handle on object 2 gave a wrapper whose field is v, while
\* the slot holds object 1 in a poisoned Mutex.
C11_Witness ==
    /\ wrap.op = "from"
    /\ wrap.in = <<TValue("JsValue", 2)>>
    /\ wrap.out = PreserveJsValue(TValue("JsValue", 2))
    /\ NEXT_PRESERVE = 1 /\ poisoned

DepositStep(t) == pc[t] = "s_replace" /\ pc'[t] = "s_emit"
RetrieveStep(t) == pc[t] = "d_take" /\ pc'[t] = "d_conv"

\* C13. Slot state invariant: the slot is EMPTY initially; a deposit leaves
\* it FULL with the value of the serialize that deposits, whatever it held;
\* a retrieve happens on a FULL slot and leaves it EMPTY; no other step
\* changes the slot.  So the slot is FULL exactly when a serialize has
\* deposited since the last retrieve, and holds the latest deposit.
C13_SlotStateInvariant ==
    /\ NEXT_PRESERVE = None
    /\ [][
          /\ \A t \in Threads :
                DepositStep(t)
                    => /\ NEXT_PRESERVE' # None
                       /\ NEXT_PRESERVE' = JsValueKeeper(self[t].obj)
          /\ \A t \in Threads :
                RetrieveStep(t) => (NEXT_PRESERVE # None /\ NEXT_PRESERVE' = None)
          /\ (\A t \in Threads : ~DepositStep(t) /\ ~RetrieveStep(t))
                    => NEXT_PRESERVE' = NEXT_PRESERVE
       ]_vars

\* After a retrieve, object 2 and then object 1 were deposited: the slot is
\* FULL with object 1.
C13_Witness ==
    /\ Len(log) = 3
    /\ log[1].op = "de" /\ log[1].out.kind = "ok"
    /\ log[2].op = "ser" /\ log[2].obj = 2 /\ Done(log[2])
    /\ log[3].op = "ser" /\ log[3].obj = 1 /\ Done(log[3])
    /\ NEXT_PRESERVE = 1

\* What visit_i64(0) does on a slot: the outcome of the call into type ty,
\* and the slot it leaves.
VisitZero(ty, slot) ==
    [out |-> IF slot = None THEN Panicked ELSE DeOk(FromJs(ty, Retrieved(0, slot))),
     slot |-> None]

\* C14. Decode reads and discards the sentinel: whatever i64 n the
\* deserializer passed to visit_i64, the take leaves the slot as
\* visit_i64(0) would, is fatal exactly when visit_i64(0) would be, and
\* otherwise the call returns the value visit_i64(0) would return.
C14_WireIntegerDiscarded ==
    [][\A t \in Threads :
        LET z == VisitZero(self[t].ty, NEXT_PRESERVE)
        IN  (pc[t] = "d_take" /\ pc'[t] # "d_take")
                => /\ NEXT_PRESERVE' = z.slot
                   /\ (z.out = Panicked) <=> (pc'[t] = "idle")
                   /\ (z.out # Panicked /\ self[t].ty \in PureTypes)
                        => /\ pc'[t] = "d_conv"
                           /\ DeOk(FromJs(self[t].ty, tmp'[t])) = z.out]_vars

\* visit_i64(1) is about to return the handle on object 2 that the
\* serialize before it deposited.
C14_Witness ==
    \E t \in Threads :
        /\ pc[t] = "d_ret"
        /\ value[t] = 1
        /\ self[t].obj = 2
        /\ Len(log) >= 2
        /\ log[Len(log) - 1].op = "ser" /\ log[Len(log) - 1].obj = 2
        /\ NEXT_PRESERVE = None

\* The wrapper a serialize of thread t was called on (&self).
Producer(t) == TValue(self[t].ty, self[t].obj)

OutsideSlot == {"s_conv", "d_conv", "s_emit"}

\* C16. Bounded critical sections: a thread that is cloning or converting
\* the wrapped value, converting a JsValue back to T, or calling into the
\* serializer does not hold the lock on NEXT_PRESERVE.
C16_BoundedCriticalSections ==
    \A t \in Threads : pc[t] \in OutsideSlot => owner # t

\* C17. An input other than an i64 is an ordinary error: the deserialize
\* returns Err without a panic and leaves the slot, the Mutex's owner and
\* its poison flag as they were; so after it a FULL slot still gives its
\* value to the next deserialize that reaches visit_i64, and on an EMPTY
\* slot that deserialize is fatal.
C17_OtherInputIsRecoverable ==
    /\ [](\A i \in 1..(Len(log) - 2) :
            LET p == log[i]
                e == log[i + 1]
                d == log[i + 2]
            IN  (e.op = "de" /\ e.out = RetErr /\ Visited(d))
                    => /\ (PureSer(p) /\ ~p.pz /\ d.ty = p.ty)
                            => d.out = DeOk(TValue(p.ty, p.obj))
                       /\ (p.op = "de" /\ p.out.kind = "ok")
                            => d.out = Panicked)
    /\ [][\A t \in Threads :
            (pc[t] = "d_call" /\ pc'[t] = "idle")
                => /\ UNCHANGED <<NEXT_PRESERVE, owner, poisoned>>
                   /\ Scripted(t) => result'[t] = RetErr
                   /\ (~Scripted(t) /\ Len(log) > 0 /\ Last(log).out = Pending)
                         => Last(log').out = RetErr]_vars

\* Object 2 was deposited, a deserialize of something other than an i64
\* returned Err, and the next deserialize returned object 2.
C17_Witness ==
    /\ Len(log) = 3
    /\ log[1].op = "ser" /\ log[1].obj = 2 /\ log[1].out = SerOk
    /\ log[2].op = "de" /\ log[2].out = RetErr
    /\ log[3].op = "de" /\ log[3].out = DeOk(TValue("JsValue", 2))

\* C18. The deposit comes before the sentinel and is never rolled back: the
\* step in which the serializer accepts or rejects the scalar leaves the
\* slot as it is; after a serialize of v the slot is FULL with v whether the
\* serializer accepted or rejected the scalar (and whatever becomes of the
\* serialized form), and a deserialize that follows a rejected serialize
\* and reaches visit_i64, with no serialize of its own, returns v.
C18_DepositNotRolledBack ==
    /\ [](\A i \in 1..Len(log) :
            LET s == log[i]
            IN  (PureSer(s) /\ ~s.pz /\ Done(s))
                    => /\ s.out \in {SerOk, RetErr}
                       /\ i = Len(log)
                            => NEXT_PRESERVE = JsValueKeeper(ToJs(TValue(s.ty, s.obj)))
                       /\ (/\ s.out = RetErr /\ i < Len(log)
                           /\ Visited(log[i + 1]) /\ log[i + 1].ty = s.ty)
                            => log[i + 1].out = DeOk(TValue(s.ty, s.obj)))
    /\ [][\A t \in Threads :
            (pc[t] = "s_emit" /\ pc'[t] = "idle")
                => NEXT_PRESERVE' = NEXT_PRESERVE]_vars

\* The serializer rejected the scalar of the serialize of object 2; the
\* deserialize after it returned object 2, and the one after that found the
\* slot EMPTY.
C18_Witness ==
    /\ Len(log) = 3
    /\ log[1].op = "ser" /\ log[1].obj = 2 /\ log[1].out = RetErr
    /\ log[2].op = "de" /\ log[2].out = DeOk(TValue("JsValue", 2))
    /\ log[3].op = "de" /\ log[3].out = Panicked

====
